---------------------------- MODULE Spec2Model ----------------------------
(***************************************************************************)
(* HCLasso.cpp: a batch of box-constrained L1-regularised quadratic        *)
(* programs, each solved by Spectral Projected Gradient (SPG) with a       *)
(* non-monotone backtracking line search.                                  *)
(*                                                                         *)
(* Arithmetic.  The program computes in C doubles.  The model computes in  *)
(* exact arithmetic on the numbers  m/q * 2^e  (m, q odd and coprime,      *)
(* q > 0), kept in that normal form so that equal numbers are equal        *)
(* records.  q = 0 marks the IEEE results of a division by zero: +Inf,     *)
(* -Inf (m = 1, -1) and NaN (m = 0).  Rounding is not modelled.            *)
(***************************************************************************)
EXTENDS Integers, Sequences, FiniteSets, TLC

\* ------------------------------------------------------------------------
\* Exact numbers
\* ------------------------------------------------------------------------

Zero == [m |-> 0, q |-> 1, e |-> 0]
One == [m |-> 1, q |-> 1, e |-> 0]
PosInf == [m |-> 1, q |-> 0, e |-> 0]
NegInf == [m |-> -1, q |-> 0, e |-> 0]
NaN == [m |-> 0, q |-> 0, e |-> 0]

AbsI(n) == IF n < 0 THEN -n ELSE n

SgnI(n) == IF n < 0 THEN -1 ELSE IF n = 0 THEN 0 ELSE 1

MinI(a, b) == IF a < b THEN a ELSE b

RECURSIVE Gcd(_, _)
Gcd(a, b) == IF b = 0 THEN a ELSE Gcd(b, a % b)

\* the number of factors 2 of n > 0
RECURSIVE Val2(_)
Val2(n) == IF n % 2 = 0 THEN 1 + Val2(n \div 2) ELSE 0

\* the normal form of mm/qq * 2^ee, qq odd and positive
Norm(mm, qq, ee) ==
    IF mm = 0 THEN Zero
    ELSE LET a == AbsI(mm)
             v == Val2(a)
             o == a \div (2 ^ v)
             c == Gcd(o, qq)
         IN [m |-> SgnI(mm) * (o \div c), q |-> qq \div c, e |-> ee + v]

\* mm * 2^ee
Dy(mm, ee) == Norm(mm, 1, ee)

IsFinite(a) == a.q # 0

IsNaN(a) == a.q = 0 /\ a.m = 0

Sign(a) == SgnI(a.m)

Neg(a) == [a EXCEPT !.m = -a.m]

Add(a, b) ==
    IF a = Zero THEN b
    ELSE IF b = Zero THEN a
    ELSE LET e0 == MinI(a.e, b.e)
             c == Gcd(a.q, b.q)
         IN Norm(a.m * (2 ^ (a.e - e0)) * (b.q \div c)
                   + b.m * (2 ^ (b.e - e0)) * (a.q \div c),
                 (a.q \div c) * b.q, e0)

Sub(a, b) == Add(a, Neg(b))

Mul(a, b) ==
    IF a = Zero \/ b = Zero THEN Zero
    ELSE LET c1 == Gcd(AbsI(a.m), b.q)
             c2 == Gcd(AbsI(b.m), a.q)
         IN [m |-> (a.m \div c1) * (b.m \div c2),
             q |-> (a.q \div c2) * (b.q \div c1),
             e |-> a.e + b.e]

\* IEEE division: x/0 is +-Inf for x # 0 and NaN for x = 0
Div(a, b) ==
    IF b = Zero
    THEN IF a = Zero THEN NaN ELSE IF a.m > 0 THEN PosInf ELSE NegInf
    ELSE Mul(a, [m |-> SgnI(b.m) * b.q, q |-> AbsI(b.m), e |-> -b.e])

\* the integer part of the binary logarithm of n > 0
RECURSIVE Log2(_)
Log2(n) == IF n < 2 THEN 0 ELSE 1 + Log2(n \div 2)

\* a < b for a, b > 0 finite.  The binary logarithms decide it when a and b
\* are more than a factor of four apart; otherwise
\* a.m*b.q*2^(a.e-b.e) < b.m*a.q is decided without forming the power of
\* two times the product.
LessPos(a, b) ==
    LET la == Log2(a.m) - Log2(a.q) + a.e
        lb == Log2(b.m) - Log2(b.q) + b.e
    IN IF la + 1 <= lb - 1 THEN TRUE
       ELSE IF la - 1 >= lb + 1 THEN FALSE
       ELSE LET c == Gcd(a.q, b.q)
                P == a.m * (b.q \div c)
                Q == b.m * (a.q \div c)
                s == a.e - b.e
            IN IF s >= 0
               THEN IF s > 30 THEN FALSE ELSE P <= (Q - 1) \div (2 ^ s)
               ELSE IF -s > 30 THEN TRUE ELSE (P \div (2 ^ (-s))) < Q

\* the C comparison a < b on doubles (false when either side is NaN)
Less(a, b) ==
    IF IsNaN(a) \/ IsNaN(b) THEN FALSE
    ELSE IF a = b THEN FALSE
    ELSE IF a = NegInf \/ b = PosInf THEN TRUE
    ELSE IF a = PosInf \/ b = NegInf THEN FALSE
    ELSE IF Sign(a) # Sign(b) THEN Sign(a) < Sign(b)
    ELSE IF Sign(a) > 0 THEN LessPos(a, b)
    ELSE LessPos(Neg(b), Neg(a))

LessEq(a, b) == Less(a, b) \/ (a = b /\ ~IsNaN(a))

Greater(a, b) == Less(b, a)


\* ------------------------------------------------------------------------
\* Program constants
\* ------------------------------------------------------------------------

MEM_OLD_VALUES == 10

MAX_NUM_THREADS == 1

\* 1e-10 = 5^-10 * 2^-10
OPT_TOL == [m |-> 1, q |-> 9765625, e |-> -10]

\* 1e-3 = 5^-3 * 2^-3
SUFF_DESC == [m |-> 1, q |-> 125, e |-> -3]

\* the upper safeguard 1e10 of the BB parameter
ALPHA_MAX == [m |-> 9765625, q |-> 1, e |-> 10]

itermax == 500

\* -std::numeric_limits<double>::max(): below every objective value
NEG_DBL_MAX == NegInf

Half == Dy(1, -1)

MinusOne == Neg(One)

\* ------------------------------------------------------------------------
\* The BLAS routines the program calls (unit strides)
\* ------------------------------------------------------------------------

RECURSIVE ddot(_, _, _)
ddot(n, xv, yv) ==
    IF n = 0 THEN Zero ELSE Add(ddot(n - 1, xv, yv), Mul(xv[n], yv[n]))

RECURSIVE dasum(_, _)
dasum(n, xv) ==
    IF n = 0 THEN Zero
    ELSE Add(dasum(n - 1, xv), IF Sign(xv[n]) < 0 THEN Neg(xv[n]) ELSE xv[n])

\* yv <- a * xv + yv
daxpy(n, a, xv, yv) == [i \in 1..n |-> Add(Mul(a, xv[i]), yv[i])]

\* the first n entries of xv
dcopy(n, xv) == [i \in 1..n |-> xv[i]]

\* row i of M * xv, M column-major with leading dimension n
RECURSIVE RowDot(_, _, _, _, _)
RowDot(n, M, xv, i, c) ==
    IF c = 0 THEN Zero
    ELSE Add(RowDot(n, M, xv, i, c - 1), Mul(M[i + (c - 1) * n], xv[c]))

\* dgemv("N", n, n, 1.0, M, n, xv, 1, 0.0, y, 1)
dgemv(n, M, xv) == [i \in 1..n |-> RowDot(n, M, xv, i, n)]

\* ------------------------------------------------------------------------
\* The helpers of HCLasso.cpp
\* ------------------------------------------------------------------------

dabs(v) == IF Less(v, Zero) THEN Neg(v) ELSE v

\* beta = 2 * w - lambda
SetInputBeta(w, lam, n) ==
    [i \in 1..n |-> Sub(Mul(Dy(2, 0), w[i]), lam)]

\* Hess = G; Hess = 1 * G + Hess
SetInputHess(Gm, n) == daxpy(n * n, One, Gm, dcopy(n * n, Gm))

\* grad = Hess * x - beta
GetGrad(H, b, xv, n) == daxpy(n, MinusOne, b, dgemv(n, H, xv))

\* tmp = G * x - beta, as ObjValue leaves it
ObjValueTmp(Gm, b, xv, n) == daxpy(n, MinusOne, b, dgemv(n, Gm, xv))

\* x' * (G * x - beta)
ObjValue(Gm, b, xv, n) == ddot(n, xv, ObjValueTmp(Gm, b, xv, n))

\* tmp = x - x_old, as GetAlpha leaves it
GetAlphaTmp(xv, xo, n) == daxpy(n, MinusOne, xo, dcopy(n, xv))

\* tmp1 = g - g_old, as GetAlpha leaves it
GetAlphaTmp1(gv, go, n) == daxpy(n, MinusOne, go, dcopy(n, gv))

\* alpha = (x - x_old)'(x - x_old) / (x - x_old)'(g - g_old)
GetAlpha(xv, xo, gv, go, n) ==
    LET dx == GetAlphaTmp(xv, xo, n)
        dg == GetAlphaTmp1(gv, go, n)
    IN Div(ddot(n, dx, dx), ddot(n, dx, dg))

ProjHyperCube(xv, n) ==
    [i \in 1..n |-> IF Less(xv[i], Zero) THEN Zero
                    ELSE IF Greater(xv[i], One) THEN One
                    ELSE xv[i]]

\* d = Proj(x - alpha * g) - x
GetProjStep(xv, gv, a, n) ==
    daxpy(n, MinusOne, xv,
          ProjHyperCube(daxpy(n, Neg(a), gv, dcopy(n, xv)), n))

GetDirectDerivative(gv, dv, n) == ddot(n, gv, dv)

NormOne(xv, n) == dasum(n, xv)

\* ------------------------------------------------------------------------
\* The calls explored
\* ------------------------------------------------------------------------

\* the largest number of columns of W explored
MaxD == 2

\* what an uninitialised double may hold
Garbage == {Dy(3, 0), Dy(-7, -2)}

\* Each problem: the matrix G as passed (column-major, gRows x gCols), the
\* number of rows of W, lambda, the candidate columns (w, a0), and the number
\* of columns A has beyond those of W.
Problems ==
    { \* k = 1, G = 1, lambda = 1: interior, upper and lower clamp
      [G |-> <<One>>, gRows |-> 1, gCols |-> 1, k |-> 1, l |-> One,
       cols |-> << [w |-> <<One>>, a0 |-> <<Zero>>],
                   [w |-> <<Dy(3, 0)>>, a0 |-> <<Zero>>],
                   [w |-> <<Dy(-5, 0)>>, a0 |-> <<One>>] >>,
       aExtra |-> 0],
      \* k = 1, G = 1, lambda = 0: starting points outside the hypercube
      [G |-> <<One>>, gRows |-> 1, gCols |-> 1, k |-> 1, l |-> Zero,
       cols |-> << [w |-> <<Dy(2, 0)>>, a0 |-> <<Dy(2, 0)>>],
                   [w |-> <<Dy(1, -2)>>, a0 |-> <<Dy(2, 0)>>] >>,
       aExtra |-> 0],
      \* k = 1, G = 2^20, w = 2^-17: the line search is exhausted
      [G |-> <<Dy(1, 20)>>, gRows |-> 1, gCols |-> 1, k |-> 1, l |-> Zero,
       cols |-> << [w |-> <<Dy(1, -17)>>, a0 |-> <<Zero>>] >>,
       aExtra |-> 0],
      \* k = 1, G = 0, w = 2^-10: 2^-9 per iteration, stopped by the cap
      [G |-> <<Zero>>, gRows |-> 1, gCols |-> 1, k |-> 1, l |-> Zero,
       cols |-> << [w |-> <<Dy(1, -10)>>, a0 |-> <<Zero>>] >>,
       aExtra |-> 0],
      \* k = 1, G = 2^-20, w = 2^-21: a flat problem
      [G |-> <<Dy(1, -20)>>, gRows |-> 1, gCols |-> 1, k |-> 1, l |-> Zero,
       cols |-> << [w |-> <<Dy(1, -21)>>, a0 |-> <<Zero>>] >>,
       aExtra |-> 0],
      \* k = 1, G = -1 (not positive semi-definite): a negative BB ratio
      [G |-> <<MinusOne>>, gRows |-> 1, gCols |-> 1, k |-> 1, l |-> Zero,
       cols |-> << [w |-> <<Dy(1, -2)>>, a0 |-> <<Dy(1, -1)>>] >>,
       aExtra |-> 0],
      \* k = 2, G = diag(1/2, 2): the objective rises in one accepted step
      [G |-> <<Dy(1, -1), Zero, Zero, Dy(2, 0)>>, gRows |-> 2, gCols |-> 2,
       k |-> 2, l |-> Zero,
       cols |-> << [w |-> <<Dy(3, -2), Dy(1, -2)>>, a0 |-> <<Zero, Zero>>] >>,
       aExtra |-> 0],
      \* k = 2, G = identity, lambda = 1
      [G |-> <<One, Zero, Zero, One>>, gRows |-> 2, gCols |-> 2,
       k |-> 2, l |-> One,
       cols |-> << [w |-> <<One, Dy(1, -1)>>, a0 |-> <<Zero, Zero>>],
                   [w |-> <<Dy(-5, 0), Dy(-5, 0)>>, a0 |-> <<One, One>>] >>,
       aExtra |-> 0],
      \* k = 2, G not symmetric: G(2,1) = -1/2, G(1,2) = 0
      [G |-> <<One, Dy(-1, -1), Zero, Dy(1, -1)>>, gRows |-> 2, gCols |-> 2,
       k |-> 2, l |-> Zero,
       cols |-> << [w |-> <<Dy(1, -1), Zero>>, a0 |-> <<One, Zero>>] >>,
       aExtra |-> 0],
      \* mismatched dimensions: W has 1 row, G is 2 x 2, A has one column more
      [G |-> <<One, Zero, Zero, One>>, gRows |-> 2, gCols |-> 2,
       k |-> 1, l |-> One,
       cols |-> << [w |-> <<One>>, a0 |-> <<Zero>>] >>,
       aExtra |-> 1] }

\* the columns chosen by sel, one after the other (column-major)
Flatten(p, sel, n, fld) ==
    [i \in 1..(p.k * n) |->
        LET col == p.cols[sel[((i - 1) \div p.k) + 1]]
        IN IF fld = "w" THEN col.w[((i - 1) % p.k) + 1]
           ELSE col.a0[((i - 1) % p.k) + 1]]

\* the arguments of one call of RHLasso
CallOf(p, sel, n) ==
    [G |-> p.G, gRows |-> p.gRows, gCols |-> p.gCols,
     W |-> Flatten(p, sel, n, "w"), wRows |-> p.k, wCols |-> n,
     A |-> Flatten(p, sel, n, "a0") \o [i \in 1..(p.k * p.aExtra) |-> Zero],
     aRows |-> p.k, aCols |-> n + p.aExtra,
     l |-> p.l]

\* ------------------------------------------------------------------------
\* State
\* ------------------------------------------------------------------------

VARIABLES
    call,       \* the arguments Ginp, Winp, Ainp, l of RHLasso
    junk,       \* the content of uninitialised memory
    pc,         \* the statement the program is at
    k, d, lambda,               \* RHLasso: Wi.nrow(), Wi.ncol(), as<double>(l)
    Anew, Loss_new,             \* the outputs newA and newLoss
    buffers,    \* "none", "allocated", "null" (a malloc failed) or "freed"
    j, loss,                    \* spawn_threads: the column and the sum
    losses,                     \* the values *(fhat + id) added to loss so far
    Hess, beta, x, x_old, g, g_old, dsct, old_fvals, tmp, tmp1, fhat,
    f, fmin, alpha, gtd, t, f_ref, Linear, Quad, factor, Norm1_dx,
    linear, quad, red_f, f_tmp, norm1_dx, iter

inputs == <<call, junk>>

outputs == <<Anew, Loss_new>>

dispatch == <<k, d, lambda, buffers, j, loss, losses>>

scratch == <<Hess, beta, x, x_old, g, g_old, dsct, old_fvals, tmp, tmp1, fhat>>

locals == <<f, fmin, alpha, gtd, t, f_ref, Linear, Quad, factor, Norm1_dx,
            linear, quad, red_f, f_tmp, norm1_dx, iter>>

vars == <<inputs, pc, outputs, dispatch, scratch, locals>>

\* column c (from 0) of a column-major matrix with n rows
Col(M, c, n) == [i \in 1..n |-> M[c * n + i]]

SetCol(M, c, n, v) ==
    [i \in 1..Len(M) |-> IF i > c * n /\ i <= (c + 1) * n THEN v[i - c * n]
                         ELSE M[i]]

\* ahat is Anew + j * k
ahat == Col(Anew, j, k)

Filled(n, v) == [i \in 1..n |-> v]

Init ==
    /\ \E p \in Problems :
         \E n \in 0..MaxD :
           \E sel \in [1..n -> 1..Len(p.cols)] :
             call = CallOf(p, sel, n)
    /\ junk \in Garbage
    /\ pc = "RHLasso"
    /\ k = 0 /\ d = 0 /\ lambda = Zero
    /\ Anew = <<>> /\ Loss_new = Zero
    /\ buffers = "none"
    /\ j = 0 /\ loss = Zero /\ losses = <<>>
    /\ Hess = <<>> /\ beta = <<>> /\ x = <<>> /\ x_old = <<>> /\ g = <<>>
    /\ g_old = <<>> /\ dsct = <<>> /\ old_fvals = <<>> /\ tmp = <<>>
    /\ tmp1 = <<>> /\ fhat = Zero
    /\ f = Zero /\ fmin = Zero /\ alpha = Zero /\ gtd = Zero /\ t = Zero
    /\ f_ref = Zero /\ Linear = Zero /\ Quad = Zero /\ factor = Zero
    /\ Norm1_dx = Zero /\ linear = Zero /\ quad = Zero /\ red_f = Zero
    /\ f_tmp = Zero /\ norm1_dx = Zero /\ iter = 0

\* ------------------------------------------------------------------------
\* RHLasso and spawn_threads
\* ------------------------------------------------------------------------

\* lines 534-564: the dimensions are taken from W alone; newA and newLoss
\* are allocated zero-filled; spawn_threads is called
RHLasso ==
    /\ pc = "RHLasso"
    /\ k' = call.wRows
    /\ d' = call.wCols
    /\ lambda' = call.l
    /\ Anew' = Filled(call.wRows * call.wCols, Zero)
    /\ Loss_new' = Zero
    /\ pc' = "spawn_threads"
    /\ UNCHANGED <<inputs, buffers, j, loss, losses, scratch, locals>>

\* lines 480-501: the eleven mallocs, the test whose body is empty, j and loss
Malloc ==
    /\ pc = "spawn_threads"
    /\ \E ok \in BOOLEAN : buffers' = IF ok THEN "allocated" ELSE "null"
    /\ Hess' = Filled(MAX_NUM_THREADS * k * k, junk)
    /\ beta' = Filled(MAX_NUM_THREADS * k, junk)
    /\ x' = Filled(MAX_NUM_THREADS * k, junk)
    /\ x_old' = Filled(MAX_NUM_THREADS * k, junk)
    /\ g' = Filled(MAX_NUM_THREADS * k, junk)
    /\ g_old' = Filled(MAX_NUM_THREADS * k, junk)
    /\ dsct' = Filled(MAX_NUM_THREADS * k, junk)
    /\ old_fvals' = Filled(MAX_NUM_THREADS * MEM_OLD_VALUES, junk)
    /\ tmp' = Filled(MAX_NUM_THREADS * k, junk)
    /\ tmp1' = Filled(MAX_NUM_THREADS * k, junk)
    /\ fhat' = junk
    /\ j' = 0
    /\ loss' = Zero
    /\ pc' = "for"
    /\ UNCHANGED <<inputs, outputs, k, d, lambda, losses, locals>>

\* line 290: the starting point is the column of A
StartPoint(a0, n) == dcopy(n, a0)

\* FirstIter without the assignment of line 310: the iteration count goes
\* on from where the previous solve stopped
StaleIter(old) == old

\* line 310: every solve counts its iterations from 0
FirstIter(old) == 0

\* lines 503-507 and 276-310: the next column; HCLasso up to the SPG loop.
\* With the buffers NULL the stores of HCLasso are undefined: the call
\* either faults or goes on as on valid memory.
HCLassoInit ==
    /\ pc = "for"
    /\ j < d
    /\ \E outcome \in IF buffers = "null" THEN {"fault", "run"} ELSE {"run"} :
         IF outcome = "fault"
         THEN /\ pc' = "fault"
              /\ UNCHANGED <<outputs, scratch, locals>>
         ELSE LET w == Col(call.W, j, k)
                  a0 == Col(call.A, j, k)
                  b == SetInputBeta(w, lambda, k)
                  H == SetInputHess(call.G, k)
                  x0 == StartPoint(a0, k)
                  f0 == ObjValue(call.G, b, x0, k)
              IN /\ old_fvals' = Filled(MEM_OLD_VALUES, NEG_DBL_MAX)
                 /\ Hess' = H
                 /\ beta' = b
                 /\ x' = x0
                 /\ g' = GetGrad(H, b, x0, k)
                 /\ tmp' = ObjValueTmp(call.G, b, x0, k)
                 /\ f' = f0
                 /\ fmin' = f0
                 /\ Anew' = SetCol(Anew, j, k, x0)
                 /\ fhat' = f0
                 /\ iter' = FirstIter(iter)
                 /\ alpha' = junk /\ gtd' = junk /\ t' = junk
                 /\ f_ref' = junk /\ Linear' = junk /\ Quad' = junk
                 /\ factor' = junk /\ Norm1_dx' = junk /\ linear' = junk
                 /\ quad' = junk /\ red_f' = junk /\ f_tmp' = junk
                 /\ norm1_dx' = junk
                 /\ pc' = "ComputeStep"
                 /\ UNCHANGED <<Loss_new, x_old, g_old, dsct, tmp1>>
    /\ UNCHANGED <<inputs, dispatch>>

\* line 512 and the loop increment: loss = loss + *(fhat + id)
HCLassoReturn ==
    /\ pc = "Terminal"
    /\ loss' = Add(loss, fhat)
    /\ losses' = Append(losses, fhat)
    /\ j' = j + 1
    /\ pc' = "for"
    /\ UNCHANGED <<inputs, outputs, k, d, lambda, buffers, scratch, locals>>

\* lines 515-528 and 570-575: the sum is stored, the buffers are freed and
\* the list (A, Loss) is returned
Return ==
    /\ pc = "for"
    /\ j >= d
    /\ Loss_new' = loss
    /\ buffers' = IF buffers = "null" THEN "null" ELSE "freed"
    /\ pc' = "returned"
    /\ UNCHANGED <<inputs, Anew, k, d, lambda, j, loss, losses, scratch,
                   locals>>

\* ------------------------------------------------------------------------
\* HCLasso: the SPG loop
\* ------------------------------------------------------------------------

\* SafeguardAlpha without its lower test
NoLowerSafeguard(a) == IF Greater(a, ALPHA_MAX) THEN One ELSE a

\* lines 319-321: a BB parameter out of (1e-10, 1e10] is replaced by 1
SafeguardAlpha(a) ==
    IF LessEq(a, OPT_TOL) \/ Greater(a, ALPHA_MAX) THEN One ELSE a

\* lines 314-325: the BB parameter and the projected step
ComputeStep ==
    /\ pc = "ComputeStep"
    /\ alpha' = IF iter = 0 THEN One
                ELSE SafeguardAlpha(GetAlpha(x, x_old, g, g_old, k))
    /\ tmp' = IF iter = 0 THEN tmp ELSE GetAlphaTmp(x, x_old, k)
    /\ tmp1' = IF iter = 0 THEN tmp1 ELSE GetAlphaTmp1(g, g_old, k)
    /\ dsct' = GetProjStep(x, g, alpha', k)
    /\ pc' = "CheckDescent"
    /\ UNCHANGED <<inputs, outputs, dispatch, Hess, beta, x, x_old, g, g_old,
                   old_fvals, fhat, f, fmin, gtd, t, f_ref, Linear, Quad,
                   factor, Norm1_dx, linear, quad, red_f, f_tmp, norm1_dx,
                   iter>>

\* lines 329-334: no progress along d ends the solve
CheckDescent ==
    /\ pc = "CheckDescent"
    /\ gtd' = GetDirectDerivative(g, dsct, k)
    /\ pc' = IF Greater(gtd', Neg(OPT_TOL)) THEN "Terminal" ELSE "LineSearch"
    /\ UNCHANGED <<inputs, outputs, dispatch, scratch, f, fmin, alpha, t,
                   f_ref, Linear, Quad, factor, Norm1_dx, linear, quad, red_f,
                   f_tmp, norm1_dx, iter>>

\* lines 338-344: the first step length tried
InitialStep(it, gv, n) ==
    IF it = 0
    THEN LET t0 == Div(One, NormOne(gv, n))
         IN IF Greater(t0, One) THEN One ELSE t0
    ELSE One

\* lines 348-355: f is recorded in the memory of the last ten values
RecordFval(ofv, it, fv) ==
    IF it < MEM_OLD_VALUES
    THEN [ofv EXCEPT ![it + 1] = fv]
    ELSE [i \in 1..MEM_OLD_VALUES |->
             IF i < MEM_OLD_VALUES THEN ofv[i + 1] ELSE fv]

\* lines 358-362: the largest of the first n recorded values
RECURSIVE MaxFval(_, _)
MaxFval(ofv, n) ==
    IF n = 1 THEN ofv[1]
    ELSE LET r == MaxFval(ofv, n - 1)
         IN IF Less(r, ofv[n]) THEN ofv[n] ELSE r

\* lines 338-378: what the backtracking loop starts from
LineSearch ==
    /\ pc = "LineSearch"
    /\ t' = InitialStep(iter, g, k)
    /\ old_fvals' = RecordFval(old_fvals, iter, f)
    /\ f_ref' = MaxFval(old_fvals', MEM_OLD_VALUES)
    /\ Linear' = Mul(t', gtd)
    /\ tmp' = dgemv(k, Hess, dsct)
    /\ Quad' = Mul(Mul(ddot(k, dsct, tmp'), t'), t')
    /\ Norm1_dx' = Mul(t', NormOne(dsct, k))
    /\ factor' = One
    /\ norm1_dx' = Mul(Norm1_dx', factor')
    /\ pc' = "Backtrack"
    /\ UNCHANGED <<inputs, outputs, dispatch, Hess, beta, x, x_old, g, g_old,
                   dsct, tmp1, fhat, f, fmin, alpha, gtd, linear, quad, red_f,
                   f_tmp, iter>>

\* RedF without the factor 0.5
RedFNoHalf(qd, ln) == Add(qd, ln)

\* line 384: the change of the objective for the step factor * t * d
RedF(qd, ln) == Add(Mul(Half, qd), ln)

\* FailedRedF without the reset of line 404
KeepRedF(rf) == rf

\* lines 400-405: the value of red_f when the step has become too small
FailedRedF(rf) == Zero

\* lines 379-408: one pass of the backtracking loop
Backtrack ==
    /\ pc = "Backtrack"
    /\ linear' = Mul(Linear, factor)
    /\ quad' = Mul(Mul(Quad, factor), factor)
    /\ f_tmp' = Add(f, RedF(quad', linear'))
    /\ IF Less(f_tmp', Add(f_ref, Mul(SUFF_DESC, linear')))
       THEN /\ red_f' = RedF(quad', linear')
            /\ t' = Mul(t, factor)
            /\ norm1_dx' = Mul(Norm1_dx, factor)
            /\ factor' = factor
            /\ pc' = "TakeStep"
       ELSE /\ factor' = Mul(factor, Half)
            /\ IF Less(Mul(Norm1_dx, factor'), OPT_TOL) \/ t = Zero
               THEN /\ t' = Zero
                    /\ norm1_dx' = Zero
                    /\ red_f' = FailedRedF(RedF(quad', linear'))
                    /\ pc' = "TakeStep"
               ELSE /\ red_f' = RedF(quad', linear')
                    /\ pc' = "Backtrack"
                    /\ UNCHANGED <<t, norm1_dx>>
    /\ UNCHANGED <<inputs, outputs, dispatch, scratch, f, fmin, alpha, gtd,
                   f_ref, Linear, Quad, Norm1_dx, iter>>

\* lines 420-436: x_old = x, x = x + t * d, the gradients, f and iter
TakeStep ==
    /\ pc = "TakeStep"
    /\ x_old' = dcopy(k, x)
    /\ x' = daxpy(k, t, dsct, x)
    /\ g_old' = dcopy(k, g)
    /\ g' = GetGrad(Hess, beta, x', k)
    /\ f' = Add(f, red_f)
    /\ iter' = iter + 1
    /\ pc' = "UpdateBest"
    /\ UNCHANGED <<inputs, outputs, dispatch, Hess, beta, dsct, old_fvals,
                   tmp, tmp1, fhat, fmin, alpha, gtd, t, f_ref, Linear, Quad,
                   factor, Norm1_dx, linear, quad, red_f, f_tmp, norm1_dx>>

\* IsBetter without the comparison: every iterate replaces the best one
AlwaysBetter(fv, fm) == TRUE

\* line 439: a value below the least one seen
IsBetter(fv, fm) == Less(fv, fm)

\* lines 439-444: the least value attained and where
UpdateBest ==
    /\ pc = "UpdateBest"
    /\ IF IsBetter(f, fmin)
       THEN /\ fmin' = f
            /\ Anew' = SetCol(Anew, j, k, x)
            /\ fhat' = f
       ELSE UNCHANGED <<fmin, Anew, fhat>>
    /\ pc' = "CheckConvergence"
    /\ UNCHANGED <<inputs, Loss_new, dispatch, Hess, beta, x, x_old, g, g_old,
                   dsct, old_fvals, tmp, tmp1, f, alpha, gtd, t, f_ref,
                   Linear, Quad, factor, Norm1_dx, linear, quad, red_f, f_tmp,
                   norm1_dx, iter>>

\* lines 448-451: tmp = ProjHyperCube(x - g) - x
Residual(xv, gv, n) ==
    daxpy(n, MinusOne, xv,
          ProjHyperCube(daxpy(n, MinusOne, gv, dcopy(n, xv)), n))

\* IterLimit without the cap
NoIterLimit(it) == FALSE

\* line 468
IterLimit(it) == it > itermax

\* lines 448-471: the four stopping tests
CheckConvergence ==
    /\ pc = "CheckConvergence"
    /\ tmp' = Residual(x, g, k)
    /\ pc' = IF \/ Less(NormOne(tmp', k), OPT_TOL)
                \/ Less(norm1_dx, OPT_TOL)
                \/ Less(dabs(red_f), OPT_TOL)
                \/ IterLimit(iter)
             THEN "Terminal"
             ELSE "ComputeStep"
    /\ UNCHANGED <<inputs, outputs, dispatch, Hess, beta, x, x_old, g, g_old,
                   dsct, old_fvals, tmp1, fhat, locals>>

Next ==
    \/ RHLasso
    \/ Malloc
    \/ HCLassoInit
    \/ ComputeStep
    \/ CheckDescent
    \/ LineSearch
    \/ Backtrack
    \/ TakeStep
    \/ UpdateBest
    \/ CheckConvergence
    \/ HCLassoReturn
    \/ Return

Spec == Init /\ [][Next]_vars

\* ------------------------------------------------------------------------
\* Properties
\* ------------------------------------------------------------------------

SolvePcs == {"ComputeStep", "CheckDescent", "LineSearch", "Backtrack",
             "TakeStep", "UpdateBest", "CheckConvergence"}

InUnit(v) == LessEq(Zero, v) /\ LessEq(v, One)

InUnitVec(xv, n) == \A i \in 1..n : InUnit(xv[i])

DimsMatch ==
    /\ call.gRows = call.wRows /\ call.gCols = call.wRows
    /\ call.aRows = call.wRows /\ call.aCols = call.wCols

\* G as the solver reads it (k x k, column-major) is symmetric
SymmetricG ==
    \A r \in 1..k : \A c \in 1..k :
        call.G[r + (c - 1) * k] = call.G[c + (r - 1) * k]

\* C1: in a call with matching dimensions and allocated buffers, every
\* coordinate of Anew is in [0,1] when the call returns, and inside a solve
\* x, the best iterate ahat and (once set) x_old are in [0,1].
C1_InHypercube ==
    (DimsMatch /\ buffers \in {"allocated", "freed"}) =>
        /\ pc = "returned" => InUnitVec(Anew, Len(Anew))
        /\ pc \in SolvePcs \cup {"Terminal"} =>
              /\ InUnitVec(x, k)
              /\ InUnitVec(ahat, k)
              /\ iter >= 1 => InUnitVec(x_old, k)

\* C2: for a symmetric G the tracked value f is the objective of the
\* current iterate x throughout a solve, and fhat is the objective of ahat.
C2_TrackedObjective ==
    (SymmetricG /\ pc \in SolvePcs \cup {"Terminal"}) =>
        /\ f = ObjValue(call.G, beta, x, k)
        /\ fhat = ObjValue(call.G, beta, ahat, k)

\* C2's case: a two-dimensional solve with symmetric G that took four
\* steps, one of them raising the objective, has ended
C2_Witness ==
    /\ pc = "Terminal" /\ SymmetricG /\ k = 2 /\ iter = 4
    /\ fhat # ObjValue(call.G, beta, Col(call.A, j, k), k)

\* one step inside a solve, as C3 has it
BestStep ==
    pc \in SolvePcs =>
        /\ LessEq(fhat', fhat)
        /\ (fhat' # fhat \/ Anew' # Anew) =>
              /\ pc = "UpdateBest"
              /\ Less(f, fhat)
              /\ fhat' = f
              /\ Anew' = SetCol(Anew, j, k, x)

\* C3: fhat starts at the objective of the starting point; inside a solve
\* fhat never increases, and (ahat, fhat) changes only in UpdateBest, when
\* f is strictly below fhat, to (x, f).
C3_BestNonIncreasing ==
    /\ []((pc = "ComputeStep" /\ iter = 0) =>
            (fhat = ObjValue(call.G, beta, x, k) /\ ahat = x))
    /\ [][BestStep]_vars

\* C3's case: an accepted step has raised the objective above the best
\* value, which UpdateBest has kept
C3_Witness ==
    /\ pc = "CheckConvergence" /\ Less(fhat, f) /\ ahat # x /\ t # Zero

C5_AllocationFailureReported ==
    (buffers = "null" /\ d >= 1) =>
        pc \notin SolvePcs \cup {"Terminal", "returned", "fault"}

\* C6: a call with mismatched dimensions (and at least one column, the
\* buffers allocated) starts no solve and returns no output.
C6_MismatchRejected ==
    (~DimsMatch /\ call.wCols >= 1 /\ buffers # "null") =>
        pc \notin SolvePcs \cup {"Terminal", "returned"}

\* the place of a statement in one turn of the SPG loop, which TakeStep
\* begins anew by incrementing iter
Place(p) ==
    CASE p = "UpdateBest" -> 1
      [] p = "CheckConvergence" -> 2
      [] p = "ComputeStep" -> 3
      [] p = "CheckDescent" -> 4
      [] p = "LineSearch" -> 5
      [] p = "Backtrack" -> 6
      [] p = "TakeStep" -> 7
      [] OTHER -> 8

\* one step of the program, as C7 has it: (j, iter, Place(pc), halvings)
\* grows in lexicographic order
Advance ==
    /\ pc \in SolvePcs =>
          /\ j' = j
          /\ pc' \in SolvePcs \cup {"Terminal"}
          /\ \/ iter' = iter + 1 /\ pc = "TakeStep" /\ pc' = "UpdateBest"
             \/ iter' = iter /\ Place(pc') > Place(pc)
             \/ /\ iter' = iter /\ pc = "Backtrack" /\ pc' = "Backtrack"
                /\ factor' = Mul(factor, Half)
                /\ ~Less(Mul(Norm1_dx, factor'), OPT_TOL)
    /\ pc = "Terminal" => (pc' = "for" /\ j' = j + 1)
    /\ pc = "for" =>
          \/ j < d /\ pc' \in {"ComputeStep", "fault"} /\ j' = j
          \/ j = d /\ pc' = "returned"

ClosedForm(Gv, wv, lam) ==
    LET u == Div(Sub(wv, Mul(Half, lam)), Gv)
    IN IF Less(u, Zero) THEN Zero ELSE IF Greater(u, One) THEN One ELSE u

\* C8: for k = 1 and G > 0 the minimizer returned is within optTol of
\* clamp((w - lambda/2)/G, 0, 1).
C8_ClosedForm ==
    (pc = "Terminal" /\ k = 1 /\ DimsMatch /\ buffers = "allocated"
        /\ Greater(call.G[1], Zero))
    => LessEq(dabs(Sub(ahat[1],
                       ClosedForm(call.G[1], Col(call.W, j, k)[1], lambda))),
              OPT_TOL)

\* one step of the program, as C9 has it
ZeroStep ==
    /\ (pc = "Backtrack" /\ pc' = "TakeStep" /\ factor' # factor) =>
           (t' = Zero /\ red_f' = Zero /\ norm1_dx' = Zero
               /\ Less(Mul(Norm1_dx, factor'), OPT_TOL))
    /\ (pc \in {"TakeStep", "UpdateBest"} /\ t = Zero) =>
           (x' = x /\ f' = f /\ Anew' = Anew /\ fhat' = fhat)
    /\ (pc = "CheckConvergence" /\ t = Zero) => pc' = "Terminal"

\* C9: a backtracking pass that halves the step below optTol leaves t = 0
\* and red_f = 0; TakeStep and UpdateBest then leave x, f, ahat and fhat as
\* they were, and the convergence check of that iteration ends the solve.
C9_ZeroStepStops == [][ZeroStep]_vars

\* C9's case: a solve ended after an exhausted line search
C9_Witness ==
    /\ pc = "Terminal" /\ iter = 1 /\ t = Zero /\ factor # One
    /\ Less(gtd, Neg(OPT_TOL))

\* the BB ratio ComputeStep has just computed (x, x_old, g, g_old are as
\* ComputeStep read them)
Ratio == GetAlpha(x, x_old, g, g_old, k)

=============================================================================
